---- MODULE Spec2Model ----
(***************************************************************************)
(* Model of the send-bitcoin construction flow of SendBitcoinForm.tsx      *)
(* (handleSendBitcoinSubmit and its helpers) together with the part of     *)
(* WalletView that feeds it (address derivation, the recorded tx list).    *)
(*                                                                         *)
(* Every await of handleSendBitcoinSubmit is a suspension point: one       *)
(* action models the code that runs from the arrival of one response to    *)
(* the sending of the next request (or to the end of the handler).  The    *)
(* protocol endpoint is the environment: every response is drawn from a    *)
(* small set that includes honest and tampered answers.                    *)
(***************************************************************************)
EXTENDS Integers, Sequences, FiniteSets, TLC

(***************************************************************************)
(* Bounds of the model.                                                    *)
(***************************************************************************)
\* longest coin list AccountCoins returns
MaxCoins == 2
\* the session stops starting attempts once this many transactions are recorded
MaxTxs == 1
\* handler activations that can exist at the same time
MaxActivations == 2

Activations == 1..MaxActivations

(***************************************************************************)
(* Input domains.                                                          *)
(***************************************************************************)
\* The number input holds a JS number of whole tBTC; the model writes it in
\* units of 1/AmountScale tBTC so that 0.1 tBTC is representable.
AmountScale == 10
\* null is <<>>, a number n/AmountScale is <<n>>
NULL == <<>>
AmountInputs == {NULL, <<1>>, <<20>>}
RecipientInputs == {"", "tb1qshort", "tb1qm5tfegjevj27yvvna9elym9lnzcf0zraxgl8z2"}
SenderAddress == "tb1qsender"

\* amounts (minor units) the endpoint can quote for a coin, and fees
CoinAmounts == {10000000, 150000000}
FeeAmounts == {2000}
CoinValues == {ToString(n) : n \in CoinAmounts}
FeeValues == {ToString(n) : n \in FeeAmounts}
TxHashes == {"h1", "h2"}
PayloadLists == {<<[hex_bytes |-> "aa"]>>, <<[hex_bytes |-> "bb"], [hex_bytes |-> "aa"]>>}

\* string.length of the strings the model uses
Length(s) ==
    CASE s = "" -> 0
      [] s = "tb1qshort" -> 9
      [] s = "tb1qsender" -> 10
      [] s = "tb1qm5tfegjevj27yvvna9elym9lnzcf0zraxgl8z2" -> 42

\* Unary plus on a decimal numeral: the integer whose decimal form is s.
Numerals == CoinAmounts \cup {-n : n \in CoinAmounts} \cup FeeAmounts \cup {0}
Number(s) == CHOOSE n \in Numerals : ToString(n) = s

Abs(n) == IF n < 0 THEN -n ELSE n

(***************************************************************************)
(* Coins as AccountCoins returns them.                                     *)
(***************************************************************************)
Coin(i, v) ==
    [coin_identifier |-> [identifier |-> "utxo" \o ToString(i)],
     amount |-> [value |-> v, currency |-> [symbol |-> "tBTC", decimals |-> 8]]]

CoinListsOfLen(n) == {[i \in 1..n |-> Coin(i, vs[i])] : vs \in [1..n -> CoinValues]}
CoinLists == UNION {CoinListsOfLen(n) : n \in 0..MaxCoins}

(***************************************************************************)
(* calculateOperationValue: sum of |+value| over the operations.           *)
(***************************************************************************)
RECURSIVE calculateOperationValue(_)
calculateOperationValue(ops) ==
    IF ops = <<>> THEN 0
    ELSE calculateOperationValue(SubSeq(ops, 1, Len(ops) - 1))
         + Abs(Number(ops[Len(ops)].amount.value))

(***************************************************************************)
(* createOps({fee, coins}) evaluated in a render whose state is st and     *)
(* whose userAddress prop is userAddress.                                  *)
(***************************************************************************)
\* state.amount ? state.amount * (10**8) : 0
MinorUnits(amount) ==
    IF amount = NULL \/ amount[1] = 0 THEN 0 ELSE (amount[1] * 10^8) \div AmountScale

\* (variant) the inputs are numbered from 1
InputOp_OneBased(coin, index, userAddress) ==
    [operation_identifier |-> [index |-> index + 1],
     type |-> "INPUT",
     account |-> [address |-> userAddress],
     amount |-> [value |-> "-" \o coin.amount.value,
                 currency |-> [symbol |-> coin.amount.currency.symbol, decimals |-> 8]],
     coin_change |-> [coin_action |-> "coin_spent", coin_identifier |-> coin.coin_identifier]]

InputOp(coin, index, userAddress) ==
    [operation_identifier |-> [index |-> index],
     type |-> "INPUT",
     account |-> [address |-> userAddress],
     amount |-> [value |-> "-" \o coin.amount.value,
                 currency |-> [symbol |-> coin.amount.currency.symbol, decimals |-> 8]],
     coin_change |-> [coin_action |-> "coin_spent", coin_identifier |-> coin.coin_identifier]]

\* (variant) a coin is also taken when the total already equals the threshold
TakesCoin_Inclusive(inputs, totalInputsAmount, threshold) ==
    Len(inputs) < 1 \/ totalInputsAmount <= threshold

\* inputs.length < 1 || totalInputsAmount < (amount + fee)
TakesCoin(inputs, totalInputsAmount, threshold) ==
    Len(inputs) < 1 \/ totalInputsAmount < threshold

\* the reduce of createOps over coins[1..k]; the callback's index is 0-based
RECURSIVE selectInputs(_, _, _, _)
selectInputs(coins, k, threshold, userAddress) ==
    IF k = 0 THEN <<>>
    ELSE LET inputs == selectInputs(coins, k - 1, threshold, userAddress)
             totalInputsAmount == calculateOperationValue(inputs)
         IN  IF TakesCoin(inputs, totalInputsAmount, threshold)
             THEN Append(inputs, InputOp(coins[k], k - 1, userAddress))
             ELSE inputs

OutputOp(index, address, value) ==
    [operation_identifier |-> [index |-> index],
     type |-> "OUTPUT",
     account |-> [address |-> address],
     amount |-> [value |-> ToString(value),
                 currency |-> [symbol |-> "tBTC", decimals |-> 8]]]

\* (variant) the fee is not taken off the change
ChangeValue_IgnoresFee(totalInputsAmount, amount, fee) == totalInputsAmount - amount

\* +totalInputsAmount - amount - fee
ChangeValue(totalInputsAmount, amount, fee) == totalInputsAmount - amount - fee

\* (variant) the change output is put before the recipient output
createOps_ChangeFirst(fee, coins, st, userAddress) ==
    LET amount == MinorUnits(st.amount)
        inputs == selectInputs(coins, Len(coins), amount + fee, userAddress)
        totalInputsAmount == calculateOperationValue(inputs)
    IN  inputs \o
        <<OutputOp(Len(inputs), userAddress,
                   ChangeValue(totalInputsAmount, amount, fee)),
          OutputOp(Len(inputs) + 1, st.recipient, amount)>>

createOps(fee, coins, st, userAddress) ==
    LET amount == MinorUnits(st.amount)
        inputs == selectInputs(coins, Len(coins), amount + fee, userAddress)
        totalInputsAmount == calculateOperationValue(inputs)
    IN  inputs \o
        <<OutputOp(Len(inputs), st.recipient, amount),
          OutputOp(Len(inputs) + 1, userAddress,
                   ChangeValue(totalInputsAmount, amount, fee))>>

(***************************************************************************)
(* operationsEqual(intent, operations)                                     *)
(***************************************************************************)
\* (variant) the currency symbols are not compared
operationsEqual_NoSymbol(intent, operations) ==
    IF Len(intent) # Len(operations) THEN FALSE
    ELSE \A i \in 1..Len(operations) :
            LET op == operations[i]
                intentOp == intent[i]
            IN  /\ op.account.address = intentOp.account.address
                /\ op.amount.value = intentOp.amount.value
                /\ op.type = intentOp.type

operationsEqual(intent, operations) ==
    IF Len(intent) # Len(operations) THEN FALSE
    ELSE \A i \in 1..Len(operations) :
            LET op == operations[i]
                intentOp == intent[i]
            IN  /\ op.account.address = intentOp.account.address
                /\ op.amount.value = intentOp.amount.value
                /\ op.amount.currency.symbol = intentOp.amount.currency.symbol
                /\ op.type = intentOp.type

(***************************************************************************)
(* State.                                                                  *)
(*   state        SendBitcoinForm's useState record                        *)
(*   address, txs WalletView's state.address and state.txs                 *)
(*   deriving     the derive request of WalletView's mount effect is out   *)
(*   pc, closure, frame   per activation of handleSendBitcoinSubmit: the   *)
(*                await it is suspended at, the render values it closed    *)
(*                over, and its local constants                            *)
(*   requests     per activation, the requests it sent to rosettaClient    *)
(*   rejected     per activation, the reason its promise rejected with     *)
(*   reported     per activation, the tx it passed to transactionSuccess   *)
(***************************************************************************)
VARIABLES state, address, deriving, txs, pc, closure, frame, requests, rejected, reported

vars == <<state, address, deriving, txs, pc, closure, frame, requests, rejected, reported>>

\* an optional value: None, or Some(x)
None == <<>>
Some(x) == <<x>>
Get(o) == o[1]

Awaiting == {"awaitAccountCoins", "awaitPreprocess", "awaitMetadata", "awaitPayloads",
             "awaitParseUnsigned", "awaitCombine", "awaitParseSigned", "awaitHash",
             "awaitSubmit"}
Ended == {"done", "failed"}

EmptyFrame ==
    [coins |-> None, preprocessOps |-> None, preprocessResponse |-> None,
     metadataResponse |-> None, ops |-> None, payloads |-> None,
     parsedUnsigned |-> None, combine |-> None, parseSigned |-> None,
     hashRes |-> None, submitRes |-> None]

InitialState ==
    [ops |-> <<>>, amount |-> NULL, recipient |-> "", coins |-> <<>>, submittingTx |-> FALSE]

Init ==
    /\ state = InitialState
    /\ address = ""
    /\ deriving = TRUE
    /\ txs = <<>>
    /\ pc = [s \in Activations |-> "idle"]
    /\ closure = [s \in Activations |-> [state |-> InitialState, userAddress |-> ""]]
    /\ frame = [s \in Activations |-> EmptyFrame]
    /\ requests = [s \in Activations |-> <<>>]
    /\ rejected = [s \in Activations |-> ""]
    /\ reported = [s \in Activations |-> None]

(***************************************************************************)
(* WalletView: the derive response sets state.address.                     *)
(***************************************************************************)
DeriveAddressReturn ==
    /\ deriving
    /\ deriving' = FALSE
    /\ address' = SenderAddress
    /\ UNCHANGED <<state, txs, pc, closure, frame, requests, rejected, reported>>

(***************************************************************************)
(* The form's inputs.                                                      *)
(***************************************************************************)
RecipientChange ==
    \E v \in RecipientInputs :
        /\ state' = [state EXCEPT !.recipient = v]
        /\ UNCHANGED <<address, deriving, txs, pc, closure, frame, requests, rejected, reported>>

AmountChange ==
    \E v \in AmountInputs :
        /\ state' = [state EXCEPT !.amount = v]
        /\ UNCHANGED <<address, deriving, txs, pc, closure, frame, requests, rejected, reported>>

\* (variant) the button ignores the submitting flag
SubmitDisabled_IgnoresSubmitting(st) ==
    \/ Length(st.recipient) < 27
    \/ st.amount = NULL
    \/ st.amount[1] <= 0

\* the submit button's disabled attribute
SubmitDisabled(st) ==
    \/ Length(st.recipient) < 27
    \/ st.amount = NULL
    \/ st.amount[1] = 0
    \/ st.amount[1] <= 0
    \/ st.submittingTx

(***************************************************************************)
(* Exits of handleSendBitcoinSubmit.                                       *)
(***************************************************************************)
\* (variant) a catch block that records the error and lets the handler go on
Catch_Swallows(s, error) ==
    /\ state' = [state EXCEPT !.submittingTx = FALSE]
    /\ pc' = pc
    /\ rejected' = [rejected EXCEPT ![s] = error]

\* the catch block: an awaited promise rejected
Catch(s, error) ==
    /\ state' = [state EXCEPT !.submittingTx = FALSE]
    /\ pc' = [pc EXCEPT ![s] = "failed"]
    /\ rejected' = [rejected EXCEPT ![s] = error]

\* return Promise.reject(reason) inside the try block: the returned promise is
\* not awaited there, so the catch block does not run
ReturnReject(s, reason) ==
    /\ state' = state
    /\ pc' = [pc EXCEPT ![s] = "failed"]
    /\ rejected' = [rejected EXCEPT ![s] = reason]

\* a request goes out through rosettaClient and the handler suspends
Call(s, call, body, next) ==
    /\ requests' = [requests EXCEPT ![s] = Append(@, [call |-> call, body |-> body])]
    /\ pc' = [pc EXCEPT ![s] = next]

(***************************************************************************)
(* Answers of the endpoint.                                                *)
(***************************************************************************)
\* accountCoinsResponse.coins: a list, or None when the response carries none
AccountCoinsAnswers == {None} \cup {Some(l) : l \in CoinLists}

SuggestedFees ==
    {None, Some(<<>>)} \cup
    {Some(<<[value |-> v, currency |-> [symbol |-> "tBTC", decimals |-> 8]]>>) : v \in FeeValues}

\* What Parse may say the transaction holds: the operations it was built from,
\* the same with the endpoint's own numbering, the change output altered by one
\* unit, another recipient, the last operation missing, another currency symbol
\* or type on the first operation, or the two outputs in the other order.
Renumbered(ops) ==
    [i \in 1..Len(ops) |-> [ops[i] EXCEPT !.operation_identifier.index = i]]

ParseAnswers(ops, alteredChange) ==
    {ops,
     Renumbered(ops),
     [ops EXCEPT ![Len(ops)].amount.value = alteredChange],
     [ops EXCEPT ![Len(ops) - 1].account.address = SenderAddress],
     SubSeq(ops, 1, Len(ops) - 1),
     [ops EXCEPT ![1].amount.currency.symbol = "BTC"],
     [ops EXCEPT ![1].type = "OUTPUT"],
     [ops EXCEPT ![Len(ops) - 1] = ops[Len(ops)], ![Len(ops)] = ops[Len(ops) - 1]]}

\* the change value of ops moved by one unit, as a decimal string
AlteredChange(ops, st, fee) ==
    ToString(ChangeValue(calculateOperationValue(SubSeq(ops, 1, Len(ops) - 2)),
                         MinorUnits(st.amount), fee) + 1)

(***************************************************************************)
(* btcKeys: the key pair's signature over a payload and its public key.    *)
(***************************************************************************)
PublicKeyHex == "02c0ffee"
Sign(hex_bytes) == "sig(" \o hex_bytes \o ")"

\* what Payloads may answer: an unsigned transaction and its signing payloads
PayloadsAnswers ==
    {[unsigned_transaction |-> "unsigned" \o ToString(Len(pl)), payloads |-> pl] :
        pl \in PayloadLists}

\* (variant) the signatures are collected last payload first
Signatures_Reversed(payloads) ==
    [i \in 1..Len(payloads) |->
        [hex_bytes |-> Sign(payloads[Len(payloads) + 1 - i].hex_bytes),
         signing_payload |-> payloads[Len(payloads) + 1 - i],
         public_key |-> [hex_bytes |-> PublicKeyHex, curve_type |-> "secp256k1"],
         signature_type |-> "ecdsa"]]

\* the signatures constructionCombine builds from payloadsRes.payloads
Signatures(payloads) ==
    [i \in 1..Len(payloads) |->
        [hex_bytes |-> Sign(payloads[i].hex_bytes),
         signing_payload |-> payloads[i],
         public_key |-> [hex_bytes |-> PublicKeyHex, curve_type |-> "secp256k1"],
         signature_type |-> "ecdsa"]]

(***************************************************************************)
(* The conditions handleSendBitcoinSubmit and fetchAccountCoins branch on. *)
(***************************************************************************)
\* (variant) fetchAccountCoins without its address test
HasAddress_Always(userAddress) == TRUE

\* fetchAccountCoins: userAddress.length > 0
HasAddress(userAddress) == Length(userAddress) > 0

\* (variant) only a missing list is refused, an empty one is not
NoCoins_OnlyMissing(coins) == coins = None

\* !coins || (coins && coins.length < 1); coins is None when the response has none
NoCoins(coins) == coins = None \/ Len(Get(coins)) < 1

\* !metadataResponse.suggested_fee || metadataResponse.suggested_fee.length < 1
NoSuggestedFee(metadataResponse) ==
    metadataResponse.suggested_fee = None \/ Len(Get(metadataResponse.suggested_fee)) < 1

\* (variant) the handler reads the latest state instead of the one it closed over
RenderState_Latest(s) == state

\* `state` as handleSendBitcoinSubmit and createOps see it: the state of the
\* render the handler was created in
RenderState(s) == closure[s].state

\* (variant) the intent is built from the coins kept in the component state
FetchedCoins_FromState(s) == state.coins

\* the handler's constant `coins`, once fetchAccountCoins has answered
FetchedCoins(s) == Get(Get(frame[s].coins))

\* (variant) the checks compare against the fee-0 estimate
GateReference_Estimate(s) == Get(frame[s].preprocessOps)

\* the intent both operationsEqual calls are given as their second argument
GateReference(s) == Get(frame[s].ops)

\* operationsEqual(parsedUnsigned.operations, ops)
UnsignedGate(s, parsedUnsigned) == operationsEqual(parsedUnsigned.operations, GateReference(s))

\* (variant) the signed check is not made
SignedGate_Skipped(s, parseSigned) == TRUE

\* operationsEqual(parseSigned.operations, ops)
SignedGate(s, parseSigned) == operationsEqual(parseSigned.operations, GateReference(s))

\* (variant) the identifiers are not compared
HashMismatch_Never(submitRes, hashRes) == FALSE

\* (variant) the comparison is the other way round
HashMismatch_Inverted(submitRes, hashRes) ==
    submitRes.transaction_identifier.hash = hashRes.transaction_identifier.hash

\* submitRes.transaction_identifier.hash !== hashRes.transaction_identifier.hash
HashMismatch(submitRes, hashRes) ==
    submitRes.transaction_identifier.hash # hashRes.transaction_identifier.hash

(***************************************************************************)
(* handleSendBitcoinSubmit, from the submit event to the first await.      *)
(***************************************************************************)
Start(s) ==
    /\ pc[s] \notin Awaiting
    /\ \A t \in Activations : t < s => pc[t] \in Awaiting
    /\ ~SubmitDisabled(state)
    /\ Len(txs) < MaxTxs
    /\ closure' = [closure EXCEPT ![s] = [state |-> state, userAddress |-> address]]
    /\ frame' = [frame EXCEPT ![s] = EmptyFrame]
    /\ reported' = [reported EXCEPT ![s] = None]
    /\ IF HasAddress(address)
       THEN /\ state' = [state EXCEPT !.submittingTx = TRUE]
            /\ requests' = [requests EXCEPT ![s] =
                   <<[call |-> "accountCoins",
                      body |-> [address |-> address, include_mempool |-> FALSE]]>>]
            /\ pc' = [pc EXCEPT ![s] = "awaitAccountCoins"]
            /\ rejected' = [rejected EXCEPT ![s] = ""]
       ELSE /\ requests' = [requests EXCEPT ![s] = <<>>]
            /\ Catch(s, "No user address found")
    /\ UNCHANGED <<address, deriving, txs>>

\* any awaited request fails: the wrapper rethrows and the catch block runs
ProtocolError(s) ==
    /\ pc[s] \in Awaiting
    /\ Catch(s, "Error: " \o requests[s][Len(requests[s])].call)
    /\ UNCHANGED <<address, deriving, txs, closure, frame, requests, reported>>

AccountCoinsReturn(s) ==
    /\ pc[s] = "awaitAccountCoins"
    /\ \E coins \in AccountCoinsAnswers :
        /\ IF NoCoins(coins)
           THEN /\ ReturnReject(s, "no account coins found")
                /\ frame' = [frame EXCEPT ![s].coins = Some(coins)]
                /\ UNCHANGED requests
           ELSE LET preprocessOps ==
                        createOps(0, Get(coins), RenderState(s), closure[s].userAddress)
                IN  /\ frame' = [frame EXCEPT ![s].coins = Some(coins),
                                              ![s].preprocessOps = Some(preprocessOps)]
                    /\ Call(s, "preprocess", [operations |-> preprocessOps], "awaitPreprocess")
                    /\ UNCHANGED <<state, rejected>>
    /\ UNCHANGED <<address, deriving, txs, closure, reported>>

PreprocessReturn(s) ==
    /\ pc[s] = "awaitPreprocess"
    /\ LET preprocessResponse == [options |-> "options"]
       IN  /\ frame' = [frame EXCEPT ![s].preprocessResponse = Some(preprocessResponse)]
           /\ Call(s, "metadata", [options |-> preprocessResponse.options], "awaitMetadata")
    /\ UNCHANGED <<state, address, deriving, txs, closure, rejected, reported>>

\* (variant) a missing suggested fee is taken as a fee of 0
MetadataReturn_DefaultsFee(s) ==
    /\ pc[s] = "awaitMetadata"
    /\ \E suggested_fee \in SuggestedFees :
        LET metadataResponse == [metadata |-> "metadata", suggested_fee |-> suggested_fee]
            fee == IF NoSuggestedFee(metadataResponse)
                   THEN 0 ELSE Number(Get(suggested_fee)[1].value)
            ops == createOps(fee, FetchedCoins(s), RenderState(s), closure[s].userAddress)
        IN  /\ frame' = [frame EXCEPT ![s].metadataResponse = Some(metadataResponse),
                                      ![s].ops = Some(ops)]
            /\ Call(s, "payloads",
                    [metadata |-> metadataResponse.metadata, operations |-> ops],
                    "awaitPayloads")
            /\ UNCHANGED <<state, rejected>>
    /\ UNCHANGED <<address, deriving, txs, closure, reported>>

MetadataReturn(s) ==
    /\ pc[s] = "awaitMetadata"
    /\ \E suggested_fee \in SuggestedFees :
        LET metadataResponse == [metadata |-> "metadata", suggested_fee |-> suggested_fee]
        IN  IF NoSuggestedFee(metadataResponse)
            THEN /\ ReturnReject(s, "no suggested fee found")
                 /\ frame' = [frame EXCEPT ![s].metadataResponse = Some(metadataResponse)]
                 /\ UNCHANGED requests
            ELSE LET ops == createOps(Number(Get(suggested_fee)[1].value),
                                      FetchedCoins(s),
                                      RenderState(s), closure[s].userAddress)
                 IN  /\ frame' = [frame EXCEPT ![s].metadataResponse = Some(metadataResponse),
                                               ![s].ops = Some(ops)]
                     /\ Call(s, "payloads",
                             [metadata |-> metadataResponse.metadata, operations |-> ops],
                             "awaitPayloads")
                     /\ UNCHANGED <<state, rejected>>
    /\ UNCHANGED <<address, deriving, txs, closure, reported>>

PayloadsReturn(s) ==
    /\ pc[s] = "awaitPayloads"
    /\ \E payloads \in PayloadsAnswers :
        /\ frame' = [frame EXCEPT ![s].payloads = Some(payloads)]
        /\ Call(s, "parse",
                [signed |-> FALSE, transaction |-> payloads.unsigned_transaction],
                "awaitParseUnsigned")
    /\ UNCHANGED <<state, address, deriving, txs, closure, rejected, reported>>

\* the fee the intent of activation s was built with
SuggestedFee(s) == Number(Get(Get(frame[s].metadataResponse).suggested_fee)[1].value)

\* what the endpoint may answer to a Parse request of activation s
ParseAnswersFor(s) ==
    ParseAnswers(Get(frame[s].ops),
                 AlteredChange(Get(frame[s].ops), closure[s].state, SuggestedFee(s)))

ParseUnsignedReturn(s) ==
    /\ pc[s] = "awaitParseUnsigned"
    /\ \E operations \in ParseAnswersFor(s) :
        LET parsedUnsigned == [operations |-> operations]
            payloads == Get(frame[s].payloads)
        IN  /\ frame' = [frame EXCEPT ![s].parsedUnsigned = Some(parsedUnsigned)]
            /\ IF ~UnsignedGate(s, parsedUnsigned)
               THEN /\ ReturnReject(s, "Unsigned Parsed Operations do not match")
                    /\ UNCHANGED requests
               ELSE /\ Call(s, "combine",
                            [unsigned_transaction |-> payloads.unsigned_transaction,
                             signatures |-> Signatures(payloads.payloads)],
                            "awaitCombine")
                    /\ UNCHANGED <<state, rejected>>
    /\ UNCHANGED <<address, deriving, txs, closure, reported>>

CombineReturn(s) ==
    /\ pc[s] = "awaitCombine"
    /\ LET combine == [signed_transaction |-> "signed_transaction"]
       IN  /\ frame' = [frame EXCEPT ![s].combine = Some(combine)]
           /\ Call(s, "parse",
                   [signed |-> TRUE, transaction |-> combine.signed_transaction],
                   "awaitParseSigned")
    /\ UNCHANGED <<state, address, deriving, txs, closure, rejected, reported>>

ParseSignedReturn(s) ==
    /\ pc[s] = "awaitParseSigned"
    /\ \E operations \in ParseAnswersFor(s) :
        LET parseSigned == [operations |-> operations]
        IN  /\ frame' = [frame EXCEPT ![s].parseSigned = Some(parseSigned)]
            /\ IF ~SignedGate(s, parseSigned)
               THEN /\ ReturnReject(s, "Signed Parsed Operations do not match")
                    /\ UNCHANGED requests
               ELSE /\ Call(s, "hash",
                            [signed_transaction |-> Get(frame[s].combine).signed_transaction],
                            "awaitHash")
                    /\ UNCHANGED <<state, rejected>>
    /\ UNCHANGED <<address, deriving, txs, closure, reported>>

HashReturn(s) ==
    /\ pc[s] = "awaitHash"
    /\ \E h \in TxHashes :
        LET hashRes == [transaction_identifier |-> [hash |-> h]]
        IN  /\ frame' = [frame EXCEPT ![s].hashRes = Some(hashRes)]
            /\ Call(s, "submit",
                    [signed_transaction |-> Get(frame[s].combine).signed_transaction],
                    "awaitSubmit")
    /\ UNCHANGED <<state, address, deriving, txs, closure, rejected, reported>>

\* WalletView.handleTransactionSuccess: txs.push(tx)
\* (variant) the record is pushed and then appended once more
handleTransactionSuccess_PushAndSpread(tx) == txs' = Append(Append(txs, tx), tx)

handleTransactionSuccess(tx) == txs' = Append(txs, tx)

SubmitReturn(s) ==
    /\ pc[s] = "awaitSubmit"
    /\ \E h \in TxHashes :
        LET submitRes == [transaction_identifier |-> [hash |-> h]]
            hashRes == Get(frame[s].hashRes)
        IN  /\ frame' = [frame EXCEPT ![s].submitRes = Some(submitRes)]
            /\ IF HashMismatch(submitRes, hashRes)
               THEN /\ ReturnReject(s, "Submitted transaction identifier does not match Construction Hash transaction identifier")
                    /\ UNCHANGED <<txs, reported>>
               ELSE LET tx == [hash |-> submitRes.transaction_identifier.hash,
                               amount |-> IF RenderState(s).amount = NULL
                                          THEN <<0>> ELSE RenderState(s).amount]
                    IN  /\ handleTransactionSuccess(tx)
                        /\ reported' = [reported EXCEPT ![s] = Some(tx)]
                        /\ state' = [state EXCEPT !.submittingTx = FALSE,
                                                  !.amount = NULL,
                                                  !.recipient = ""]
                        /\ pc' = [pc EXCEPT ![s] = "done"]
                        /\ UNCHANGED rejected
    /\ UNCHANGED <<address, deriving, closure, requests>>

Next ==
    \/ DeriveAddressReturn
    \/ RecipientChange
    \/ AmountChange
    \/ \E s \in Activations :
        \/ Start(s)
        \/ ProtocolError(s)
        \/ AccountCoinsReturn(s)
        \/ PreprocessReturn(s)
        \/ MetadataReturn(s)
        \/ PayloadsReturn(s)
        \/ ParseUnsignedReturn(s)
        \/ CombineReturn(s)
        \/ ParseSignedReturn(s)
        \/ HashReturn(s)
        \/ SubmitReturn(s)

Spec == Init /\ [][Next]_vars

(***************************************************************************)
(* Vocabulary of the properties.                                           *)
(***************************************************************************)
ProtocolOrder ==
    <<"accountCoins", "preprocess", "metadata", "payloads", "parseUnsigned",
      "combine", "parseSigned", "hash", "submit">>

\* the local that receives the answer of the k-th call, and the await after it
ResponseLocal ==
    <<"coins", "preprocessResponse", "metadataResponse", "payloads", "parsedUnsigned",
      "combine", "parseSigned", "hashRes", "submitRes">>
AwaitOf ==
    <<"awaitAccountCoins", "awaitPreprocess", "awaitMetadata", "awaitPayloads",
      "awaitParseUnsigned", "awaitCombine", "awaitParseSigned", "awaitHash",
      "awaitSubmit">>

CallName(r) ==
    IF r.call = "parse"
    THEN (IF r.body.signed THEN "parseSigned" ELSE "parseUnsigned")
    ELSE r.call

CallNames(s) == [i \in 1..Len(requests[s]) |-> CallName(requests[s][i])]

Called(s, name) == \E i \in 1..Len(requests[s]) : CallName(requests[s][i]) = name

IsPrefix(a, b) == Len(a) <= Len(b) /\ a = SubSeq(b, 1, Len(a))

UnsignedMismatch == "Unsigned Parsed Operations do not match"
SignedMismatch == "Signed Parsed Operations do not match"

\* sum of the absolute values of the INPUT operations of an operation list
InputsTotal(ops) == calculateOperationValue(SubSeq(ops, 1, Len(ops) - 2))

\* the requested amount of activation s in minor units
Requested(s) == MinorUnits(closure[s].state.amount)

(***************************************************************************)
(* C1: Submit is requested only after the unsigned and the signed parse    *)
(* both returned operations that operationsEqual judged equal to the       *)
(* intent; a parse whose operations it judges different ends the attempt   *)
(* with an intent mismatch and Submit is never requested in that attempt.  *)
(***************************************************************************)
C1_SubmitOnlyAfterBothGates ==
    \A s \in Activations :
        /\ Called(s, "submit") =>
              /\ frame[s].parsedUnsigned # None
              /\ frame[s].parseSigned # None
              /\ operationsEqual(Get(frame[s].parsedUnsigned).operations, Get(frame[s].ops))
              /\ operationsEqual(Get(frame[s].parseSigned).operations, Get(frame[s].ops))
        /\ \A parsed \in {frame[s].parsedUnsigned, frame[s].parseSigned} :
              (parsed # None /\ ~operationsEqual(Get(parsed).operations, Get(frame[s].ops))) =>
                  /\ pc[s] = "failed"
                  /\ rejected[s] \in {UnsignedMismatch, SignedMismatch}
                  /\ ~Called(s, "submit")

\* the parse after Combine returned the intent with the change moved by one
\* unit, and the attempt ended with the mismatch before any Submit
C1_TamperedAfterCombineRejected ==
    \E s \in Activations :
        /\ pc[s] = "failed"
        /\ rejected[s] = SignedMismatch
        /\ Called(s, "combine")
        /\ ~Called(s, "submit")
        /\ LET ops == Get(frame[s].ops)
           IN  Get(frame[s].parseSigned).operations =
                   [ops EXCEPT ![Len(ops)].amount.value =
                       ToString(InputsTotal(ops) - Requested(s) - SuggestedFee(s) + 1)]

(***************************************************************************)
(* C2: transactionSuccess is invoked only in an attempt in which all nine  *)
(* calls answered, both intent checks passed and Hash and Submit returned  *)
(* the same identifier; the reported hash is the one Hash returned and the *)
(* reported amount is the amount the attempt was started with.             *)
(***************************************************************************)
C2_SuccessOnlyWhenAllGatesPass ==
    \A s \in Activations :
        /\ (pc[s] = "done") <=> (reported[s] # None)
        /\ reported[s] # None =>
              /\ CallNames(s) = ProtocolOrder
              /\ \A k \in 1..Len(ResponseLocal) : frame[s][ResponseLocal[k]] # None
              /\ operationsEqual(Get(frame[s].parsedUnsigned).operations, Get(frame[s].ops))
              /\ operationsEqual(Get(frame[s].parseSigned).operations, Get(frame[s].ops))
              /\ Get(frame[s].hashRes).transaction_identifier.hash
                    = Get(frame[s].submitRes).transaction_identifier.hash
              /\ Get(reported[s]).hash = Get(frame[s].hashRes).transaction_identifier.hash
              /\ Get(reported[s]).amount = closure[s].state.amount
              /\ rejected[s] = ""

C2_SuccessReported ==
    \E s \in Activations :
        /\ pc[s] = "done"
        /\ reported[s] # None
        /\ Get(reported[s]).hash = Get(frame[s].hashRes).transaction_identifier.hash
        /\ txs # <<>>

(***************************************************************************)
(* C3: once no attempt is running any more, submittingTx is false, on      *)
(* whichever path the last attempt ended.                                  *)
(***************************************************************************)
C3_SubmittingResetOnEveryExit ==
    (\A s \in Activations : pc[s] \notin Awaiting) => state.submittingTx = FALSE

(***************************************************************************)
(* C4: no operation list whose change output value is negative is ever     *)
(* passed to Payloads.                                                     *)
(***************************************************************************)
C4_NoNegativeChangeReachesPayloads ==
    \A s \in Activations :
        \A i \in 1..Len(requests[s]) :
            requests[s][i].call = "payloads" =>
                LET ops == requests[s][i].body.operations
                    change == InputsTotal(ops) - Requested(s) - SuggestedFee(s)
                IN  ops[Len(ops)].amount.value = ToString(change) => change >= 0

(***************************************************************************)
(* C5 as stated: the list built with fee 0 and the list built with the     *)
(* suggested fee F from the same coins and amount have the same INPUT      *)
(* operations and the same recipient output, and differ only in the value  *)
(* of the change output, which is lower by F.                              *)
(***************************************************************************)
\* est and ops agree everywhere but in the change value, which is lower by F
OnlyChangeDiffers(est, ops, A, F) ==
    /\ Len(est) = Len(ops)
    /\ \A i \in 1..(Len(ops) - 1) : est[i] = ops[i]
    /\ est[Len(est)].amount.value = ToString(InputsTotal(est) - A)
    /\ ops[Len(ops)] =
          [est[Len(est)] EXCEPT !.amount.value = ToString(InputsTotal(est) - A - F)]

C5_FeeChangesOnlyTheChangeValue ==
    \A s \in Activations :
        frame[s].ops # None =>
            OnlyChangeDiffers(Get(frame[s].preprocessOps), Get(frame[s].ops),
                              Requested(s), SuggestedFee(s))

(***************************************************************************)
(* C5 amended: the INPUT operations of the fee-0 list are a prefix of the  *)
(* INPUT operations of the fee-F list (selection stops at amount + fee, so *)
(* the fee-F build may select further coins); the recipient output has the *)
(* same address, value, currency and type in both (its index is the number *)
(* of inputs); the change value is inputs - amount - fee in each; and when *)
(* both builds select the same coins the lists differ only in the change   *)
(* value, which is lower by F.                                             *)
(***************************************************************************)
C5_FeeChangesChangeAndMaybeSelection ==
    \A s \in Activations :
        frame[s].ops # None =>
            LET est == Get(frame[s].preprocessOps)
                ops == Get(frame[s].ops)
                n0 == Len(est) - 2
                n1 == Len(ops) - 2
                A == Requested(s)
                F == SuggestedFee(s)
            IN  /\ 1 <= n0 /\ n0 <= n1
                /\ \A i \in 1..n0 : est[i] = ops[i]
                /\ ops[n1 + 1] = [est[n0 + 1] EXCEPT !.operation_identifier.index = n1]
                /\ est[n0 + 2].amount.value = ToString(InputsTotal(est) - A)
                /\ ops[n1 + 2] =
                      [est[n0 + 2] EXCEPT !.operation_identifier.index = n1 + 1,
                                          !.amount.value = ToString(InputsTotal(ops) - A - F)]
                /\ (n0 = n1 => OnlyChangeDiffers(est, ops, A, F))

\* both lists are built, the fee is positive, and the fee made the second
\* build select one more coin than the first
C5_FeeSelectsAnotherCoin ==
    \E s \in Activations :
        /\ frame[s].ops # None
        /\ SuggestedFee(s) > 0
        /\ Len(Get(frame[s].ops)) = Len(Get(frame[s].preprocessOps)) + 1

(***************************************************************************)
(* C6: the calls of one attempt are a prefix of                            *)
(* accountCoins, preprocess, metadata, payloads, parse(unsigned), combine, *)
(* parse(signed), hash, submit; each is made after the one before it       *)
(* answered; and an attempt that failed makes no further call.             *)
(***************************************************************************)
C6_OrderOf(s) ==
    LET n == Len(requests[s])
    IN  /\ IsPrefix(CallNames(s), ProtocolOrder)
        /\ \A k \in 1..n : k < n => frame[s][ResponseLocal[k]] # None
        /\ \A k \in 1..Len(ResponseLocal) : k > n => frame[s][ResponseLocal[k]] = None
        /\ pc[s] \in Awaiting =>
              /\ n >= 1
              /\ pc[s] = AwaitOf[n]
              /\ frame[s][ResponseLocal[n]] = None
        /\ rejected[s] # "" <=> pc[s] = "failed"
        /\ pc[s] = "done" => n = Len(ProtocolOrder)

\* a request of an ended attempt's activation is only ever followed by the
\* requests of a new attempt, which starts from an empty frame
C6_NoCallAfterEnd ==
    \A s \in Activations :
        pc[s] \in Ended => (requests'[s] = requests[s] \/ frame'[s] = EmptyFrame)

C6_StrictOrderFailFast ==
    /\ [](\A s \in Activations : C6_OrderOf(s))
    /\ [][C6_NoCallAfterEnd]_vars

\* Combine failed after six calls and the attempt ended there
C6_FailedAtCombine ==
    \E s \in Activations :
        /\ pc[s] = "failed"
        /\ rejected[s] = "Error: combine"
        /\ CallNames(s) = SubSeq(ProtocolOrder, 1, 6)

(***************************************************************************)
(* C7: Preprocess is given the list built with fee 0; Payloads is given    *)
(* the list built with the fee Metadata returned; and that list is what    *)
(* both parses are compared with.                                          *)
(***************************************************************************)
C7_IntentIsTheReference ==
    \A s \in Activations :
        LET A == Requested(s)
            LastValue(l) == l[Len(l)].amount.value
        IN  /\ \A i \in 1..Len(requests[s]) :
                 LET r == requests[s][i]
                 IN  /\ r.call = "preprocess" =>
                          /\ r.body.operations = Get(frame[s].preprocessOps)
                          /\ LastValue(r.body.operations)
                                = ToString(InputsTotal(r.body.operations) - A)
                     /\ r.call = "payloads" =>
                          /\ r.body.operations = Get(frame[s].ops)
                          /\ r.body.operations # Get(frame[s].preprocessOps)
                          /\ LastValue(r.body.operations)
                                = ToString(InputsTotal(r.body.operations) - A - SuggestedFee(s))
            /\ frame[s].parsedUnsigned # None =>
                 (operationsEqual(Get(frame[s].parsedUnsigned).operations, Get(frame[s].ops))
                     <=> rejected[s] # UnsignedMismatch)
            /\ frame[s].parseSigned # None =>
                 (operationsEqual(Get(frame[s].parseSigned).operations, Get(frame[s].ops))
                     <=> rejected[s] # SignedMismatch)

\* both checks passed against an intent that is not the fee-0 estimate
C7_BothChecksPassed ==
    \E s \in Activations :
        /\ Called(s, "hash")
        /\ Get(frame[s].ops) # Get(frame[s].preprocessOps)
        /\ Get(frame[s].parseSigned).operations = Get(frame[s].ops)

(***************************************************************************)
(* C8: at most one attempt is in flight at any time, and while one is the  *)
(* submitting flag is set (which disables the submit control).             *)
(***************************************************************************)
InFlight == {s \in Activations : pc[s] \in Awaiting}

C8_SingleFlight ==
    /\ Cardinality(InFlight) <= 1
    /\ InFlight # {} => state.submittingTx = TRUE

\* an attempt is in flight while the form holds a valid recipient and amount:
\* only the flag keeps a second attempt from starting
C8_OnlyTheFlagBlocks ==
    /\ InFlight # {}
    /\ Length(state.recipient) >= 27
    /\ state.amount # NULL
    /\ state.amount[1] > 0
    /\ Len(txs) < MaxTxs

(***************************************************************************)
(* C9: when AccountCoins answers with an empty or missing coin list the    *)
(* attempt fails with 'no account coins found' and accountCoins stays the  *)
(* only call of the attempt.                                               *)
(***************************************************************************)
C9_NoCoinsFailsBeforePreprocess ==
    \A s \in Activations :
        (frame[s].coins # None
            /\ (Get(frame[s].coins) = None \/ Len(Get(Get(frame[s].coins))) = 0)) =>
                /\ pc[s] = "failed"
                /\ rejected[s] = "no account coins found"
                /\ CallNames(s) = <<"accountCoins">>

C9_EmptyCoinListAnswered ==
    \E s \in Activations :
        /\ frame[s].coins = Some(Some(<<>>))
        /\ pc[s] = "failed"

(***************************************************************************)
(* C10: an attempt started with an empty sender address fails with 'No     *)
(* user address found' and makes no call at all.                           *)
(***************************************************************************)
C10_NoAddressNoCall ==
    \A s \in Activations :
        (pc[s] # "idle" /\ closure[s].userAddress = "") =>
            /\ pc[s] = "failed"
            /\ rejected[s] = "No user address found"
            /\ requests[s] = <<>>
            /\ frame[s] = EmptyFrame

C10_StartedWithoutAddress ==
    \E s \in Activations :
        /\ pc[s] = "failed"
        /\ closure[s].userAddress = ""
        /\ rejected[s] = "No user address found"

(***************************************************************************)
(* C11: when the Metadata answer carries no suggested fee (absent, or an   *)
(* empty list) the attempt fails with 'no suggested fee found', the intent *)
(* is never built, and metadata stays the last call of the attempt.        *)
(***************************************************************************)
C11_NoFeeFailsBeforeIntent ==
    \A s \in Activations :
        (frame[s].metadataResponse # None
            /\ LET fee == Get(frame[s].metadataResponse).suggested_fee
               IN  fee = None \/ Len(Get(fee)) = 0) =>
                /\ pc[s] = "failed"
                /\ rejected[s] = "no suggested fee found"
                /\ frame[s].ops = None
                /\ CallNames(s) = SubSeq(ProtocolOrder, 1, 3)
                /\ \A name \in {"payloads", "combine", "hash", "submit"} : ~Called(s, name)

\* Metadata answered with an empty suggested_fee list and the attempt ended
C11_EmptyFeeListAnswered ==
    \E s \in Activations :
        /\ frame[s].metadataResponse # None
        /\ Get(frame[s].metadataResponse).suggested_fee = Some(<<>>)
        /\ pc[s] = "failed"

(***************************************************************************)
(* C12: when the coins of the list cover amount + fee, the coins createOps *)
(* selects total at least amount + fee, and without the last selected one  *)
(* they total less than amount + fee.  Stated of both builds of an         *)
(* attempt: the estimate (fee 0) and the intent (suggested fee).           *)
(***************************************************************************)
RECURSIVE CoinsTotal(_)
CoinsTotal(coins) ==
    IF coins = <<>> THEN 0
    ELSE CoinsTotal(SubSeq(coins, 1, Len(coins) - 1)) + Number(coins[Len(coins)].amount.value)

\* the INPUT operations of a list built by createOps
InputsOf(ops) == SubSeq(ops, 1, Len(ops) - 2)

GreedyCut(ops, coins, threshold) ==
    CoinsTotal(coins) >= threshold =>
        /\ calculateOperationValue(InputsOf(ops)) >= threshold
        /\ calculateOperationValue(SubSeq(ops, 1, Len(ops) - 3)) < threshold

C12_GreedySelectionCoversThreshold ==
    \A s \in Activations :
        /\ frame[s].preprocessOps # None =>
              GreedyCut(Get(frame[s].preprocessOps), Get(Get(frame[s].coins)), Requested(s))
        /\ frame[s].ops # None =>
              GreedyCut(Get(frame[s].ops), Get(Get(frame[s].coins)),
                        Requested(s) + SuggestedFee(s))

\* the coins cover amount + fee and the selection stopped before the last coin
C12_SelectionStoppedEarly ==
    \E s \in Activations :
        /\ frame[s].ops # None
        /\ CoinsTotal(Get(Get(frame[s].coins))) >= Requested(s) + SuggestedFee(s)
        /\ Len(InputsOf(Get(frame[s].ops))) < Len(Get(Get(frame[s].coins)))

(***************************************************************************)
(* C13: a list built by createOps holds its n INPUT operations, then the   *)
(* recipient OUTPUT, then the change OUTPUT, n + 2 operations in all,      *)
(* whose operation_identifier.index values are 0, 1, ..., n+1 in list      *)
(* order; the i-th input spends the i-th coin of the list.                 *)
(***************************************************************************)
BuiltShape(ops, coins, recipient, sender) ==
    LET n == Cardinality({i \in 1..Len(ops) : ops[i].type = "INPUT"})
    IN  /\ Len(ops) = n + 2
        /\ n <= Len(coins)
        /\ \A i \in 1..n :
              /\ ops[i].type = "INPUT"
              /\ ops[i].coin_change.coin_identifier = coins[i].coin_identifier
        /\ ops[n + 1].type = "OUTPUT" /\ ops[n + 1].account.address = recipient
        /\ ops[n + 2].type = "OUTPUT" /\ ops[n + 2].account.address = sender
        /\ \A i \in 1..(n + 2) : ops[i].operation_identifier.index = i - 1

C13_ContiguousIndices ==
    \A s \in Activations :
        /\ frame[s].preprocessOps # None =>
              BuiltShape(Get(frame[s].preprocessOps), Get(Get(frame[s].coins)),
                         closure[s].state.recipient, closure[s].userAddress)
        /\ frame[s].ops # None =>
              BuiltShape(Get(frame[s].ops), Get(Get(frame[s].coins)),
                         closure[s].state.recipient, closure[s].userAddress)

\* an intent with two inputs, four operations numbered 0..3
C13_TwoInputsBuilt ==
    \E s \in Activations :
        /\ frame[s].ops # None
        /\ Len(Get(frame[s].ops)) = 4
        /\ Get(frame[s].ops)[4].operation_identifier.index = 3

(***************************************************************************)
(* C14: operationsEqual(A, B) holds exactly when A and B have the same     *)
(* length and agree, position by position, on account address, amount      *)
(* value string, currency symbol and type.  So it holds of (A, A), fails   *)
(* when the lengths differ, fails when exactly one of the four fields      *)
(* differs at one position, and fails for a reordering that changes a      *)
(* position.  Stated of every pair the handler gives it: a Parse answer    *)
(* and the intent.                                                         *)
(***************************************************************************)
\* the (position, field) pairs on which two lists of equal length disagree
Disagreements(A, B) ==
    {<<i, "address">> : i \in {j \in 1..Len(A) : A[j].account.address # B[j].account.address}}
    \cup {<<i, "value">> : i \in {j \in 1..Len(A) : A[j].amount.value # B[j].amount.value}}
    \cup {<<i, "symbol">> : i \in {j \in 1..Len(A) :
                 A[j].amount.currency.symbol # B[j].amount.currency.symbol}}
    \cup {<<i, "type">> : i \in {j \in 1..Len(A) : A[j].type # B[j].type}}

\* A holds the operations of B in another order
Reordering(A, B) ==
    /\ Len(A) = Len(B)
    /\ A # B
    /\ \A i \in 1..Len(A) :
          Cardinality({j \in 1..Len(A) : A[j] = A[i]})
             = Cardinality({j \in 1..Len(B) : B[j] = A[i]})

EqualityVerdict(A, B) ==
    /\ operationsEqual(A, B) <=> (Len(A) = Len(B) /\ Disagreements(A, B) = {})
    /\ operationsEqual(A, B) <=> operationsEqual(B, A)
    /\ operationsEqual(A, A) /\ operationsEqual(B, B)
    /\ Len(A) # Len(B) => ~operationsEqual(A, B)
    /\ (Len(A) = Len(B) /\ Cardinality(Disagreements(A, B)) = 1) => ~operationsEqual(A, B)
    /\ (Reordering(A, B) /\ Disagreements(A, B) # {}) => ~operationsEqual(A, B)

ParsedLists(s) ==
    {Get(p).operations : p \in {q \in {frame[s].parsedUnsigned, frame[s].parseSigned} : q # None}}

C14_OperationsEqualIsFieldwise ==
    \A s \in Activations :
        \A A \in ParsedLists(s) : EqualityVerdict(A, Get(frame[s].ops))

\* Parse answered the intent with another currency symbol on one operation,
\* nothing else changed, and the attempt ended with the mismatch
C14_OneSymbolDiffers ==
    \E s \in Activations :
        /\ frame[s].parsedUnsigned # None
        /\ Len(Get(frame[s].parsedUnsigned).operations) = Len(Get(frame[s].ops))
        /\ Disagreements(Get(frame[s].parsedUnsigned).operations, Get(frame[s].ops))
              = {<<1, "symbol">>}
        /\ rejected[s] = UnsignedMismatch

(***************************************************************************)
(* C15: when Hash and Submit answer different identifiers the attempt      *)
(* ends in failure with the hash-mismatch reason: transactionSuccess is    *)
(* not invoked and the step records no transaction, although Submit was    *)
(* requested exactly once in the attempt.  Hash is always requested        *)
(* before Submit.                                                          *)
(***************************************************************************)
HashMismatchReason ==
    "Submitted transaction identifier does not match Construction Hash transaction identifier"

IdentifiersDiffer(s) ==
    /\ frame[s].hashRes # None
    /\ frame[s].submitRes # None
    /\ Get(frame[s].hashRes).transaction_identifier.hash
          # Get(frame[s].submitRes).transaction_identifier.hash

C15_MismatchEnds ==
    \A s \in Activations :
        /\ IdentifiersDiffer(s) =>
              /\ pc[s] = "failed"
              /\ rejected[s] = HashMismatchReason
              /\ reported[s] = None
              /\ Cardinality({i \in 1..Len(requests[s]) :
                                 CallName(requests[s][i]) = "submit"}) = 1
        /\ \A i \in 1..Len(requests[s]) :
              CallName(requests[s][i]) = "submit" =>
                  /\ i > 1
                  /\ CallName(requests[s][i - 1]) = "hash"
                  /\ requests[s][i - 1].body.signed_transaction
                        = requests[s][i].body.signed_transaction

\* the step on which Submit answers another identifier records nothing
C15_MismatchRecordsNothing ==
    \A s \in Activations :
        (pc[s] = "awaitSubmit" /\ IdentifiersDiffer(s)') => txs' = txs

C15_HashMismatchFailsAfterBroadcast ==
    /\ []C15_MismatchEnds
    /\ [][C15_MismatchRecordsNothing]_vars

\* Submit was requested and answered, with another identifier than Hash
C15_BroadcastThenMismatch ==
    \E s \in Activations :
        /\ IdentifiersDiffer(s)
        /\ Called(s, "submit")
        /\ rejected[s] = HashMismatchReason

(***************************************************************************)
(* C16: with exactly one coin of value 150000000, a requested amount of    *)
(* 0.1 tBTC (10000000 minor units) and a suggested fee of 2000, the list   *)
(* passed to Payloads is INPUT -150000000 of the sender, OUTPUT 10000000   *)
(* to the recipient, OUTPUT 139998000 to the sender; and when both Parse   *)
(* answers carry that intent and Hash and Submit answer the same           *)
(* identifier, the attempt succeeds and reports that identifier.           *)
(***************************************************************************)
OpSummary(op) == <<op.type, op.amount.value, op.account.address>>

Scenario1(s) ==
    /\ frame[s].coins # None
    /\ Get(frame[s].coins) # None
    /\ Len(FetchedCoins(s)) = 1
    /\ FetchedCoins(s)[1].amount.value = "150000000"
    /\ closure[s].state.amount = <<1>>
    /\ frame[s].metadataResponse # None
    /\ ~NoSuggestedFee(Get(frame[s].metadataResponse))
    /\ Get(Get(frame[s].metadataResponse).suggested_fee)[1].value = "2000"

Scenario1Intent(s) ==
    <<<<"INPUT", "-150000000", closure[s].userAddress>>,
      <<"OUTPUT", "10000000", closure[s].state.recipient>>,
      <<"OUTPUT", "139998000", closure[s].userAddress>>>>

EchoedAndSameIdentifier(s) ==
    /\ frame[s].parsedUnsigned # None
    /\ frame[s].parseSigned # None
    /\ \A p \in {frame[s].parsedUnsigned, frame[s].parseSigned} :
          [i \in 1..Len(Get(p).operations) |-> OpSummary(Get(p).operations[i])]
             = Scenario1Intent(s)
    /\ frame[s].hashRes # None
    /\ frame[s].submitRes # None
    /\ ~IdentifiersDiffer(s)

C16_HappyPath ==
    \A s \in Activations :
        Scenario1(s) =>
            /\ Called(s, "payloads")
            /\ \A i \in 1..Len(requests[s]) :
                  requests[s][i].call = "payloads" =>
                      LET ops == requests[s][i].body.operations
                      IN  /\ [j \in 1..Len(ops) |-> OpSummary(ops[j])] = Scenario1Intent(s)
                          /\ \A j \in 1..Len(ops) : ops[j].operation_identifier.index = j - 1
            /\ EchoedAndSameIdentifier(s) =>
                  /\ pc[s] = "done"
                  /\ reported[s] # None
                  /\ Get(reported[s]).hash = Get(frame[s].hashRes).transaction_identifier.hash
                  /\ Get(reported[s]).hash = Get(frame[s].submitRes).transaction_identifier.hash
                  /\ \E k \in 1..Len(txs) : txs[k] = Get(reported[s])

\* the scenario ran to its end
C16_HappyPathSucceeded ==
    \E s \in Activations :
        /\ Scenario1(s)
        /\ EchoedAndSameIdentifier(s)
        /\ pc[s] = "done"

(***************************************************************************)
(* C17: the signature list sent to Combine has one signature per signing   *)
(* payload Payloads returned, in the same order; the i-th signature is     *)
(* the signing of the i-th payload's bytes, carries that payload as its    *)
(* signing_payload, the key pair's public key, curve secp256k1 and type    *)
(* ecdsa; and the unsigned transaction sent is the one Payloads returned.  *)
(***************************************************************************)
C17_OneSignaturePerPayload ==
    \A s \in Activations :
        \A i \in 1..Len(requests[s]) :
            requests[s][i].call = "combine" =>
                LET body == requests[s][i].body
                    payloadsRes == Get(frame[s].payloads)
                IN  /\ body.unsigned_transaction = payloadsRes.unsigned_transaction
                    /\ Len(body.signatures) = Len(payloadsRes.payloads)
                    /\ \A j \in 1..Len(body.signatures) :
                          /\ body.signatures[j].hex_bytes
                                = Sign(payloadsRes.payloads[j].hex_bytes)
                          /\ body.signatures[j].signing_payload = payloadsRes.payloads[j]
                          /\ body.signatures[j].public_key.hex_bytes = PublicKeyHex
                          /\ body.signatures[j].public_key.curve_type = "secp256k1"
                          /\ body.signatures[j].signature_type = "ecdsa"

\* Combine was sent the signatures of two payloads with different bytes
C17_TwoPayloadsSigned ==
    \E s \in Activations :
        /\ Called(s, "combine")
        /\ Len(Get(frame[s].payloads).payloads) = 2
        /\ Get(frame[s].payloads).payloads[1] # Get(frame[s].payloads).payloads[2]

(***************************************************************************)
(* C18: every attempt calls fetchAccountCoins once, at its start: with a   *)
(* sender address AccountCoins is the first request of the attempt and is  *)
(* requested exactly once; the list it answered is the one both the fee-0  *)
(* estimate and the intent of that attempt take their inputs from; the     *)
(* component state never holds a coin list; and an attempt started after   *)
(* an ended one begins again from AccountCoins with no coins in hand.      *)
(***************************************************************************)
\* the inputs of ops spend the first coins of the list, one input per coin
SpendsPrefixOf(ops, coins) ==
    LET n == Len(ops) - 2
    IN  /\ n >= 1
        /\ n <= Len(coins)
        /\ \A j \in 1..n :
              /\ ops[j].type = "INPUT"
              /\ ops[j].coin_change.coin_identifier = coins[j].coin_identifier
              /\ ops[j].amount.value = "-" \o coins[j].amount.value
        /\ \A j \in (n + 1)..Len(ops) : ops[j].type = "OUTPUT"

C18_FetchedOnceAndUsed ==
    /\ state.coins = <<>>
    /\ state.ops = <<>>
    /\ \A s \in Activations :
          /\ Cardinality({i \in 1..Len(requests[s]) :
                             requests[s][i].call = "accountCoins"}) <= 1
          /\ requests[s] # <<>> =>
                /\ requests[s][1].call = "accountCoins"
                /\ requests[s][1].body.address = closure[s].userAddress
          /\ (pc[s] # "idle" /\ HasAddress(closure[s].userAddress)) => requests[s] # <<>>
          /\ (pc[s] # "idle" /\ ~HasAddress(closure[s].userAddress)) =>
                (requests[s] = <<>> /\ frame[s] = EmptyFrame)
          /\ \A l \in {"preprocessOps", "ops"} :
                frame[s][l] # None =>
                    /\ frame[s].coins # None
                    /\ Get(frame[s].coins) # None
                    /\ SpendsPrefixOf(Get(frame[s][l]), Get(Get(frame[s].coins)))
          /\ \A i \in 1..Len(requests[s]) :
                requests[s][i].call \in {"preprocess", "payloads"} =>
                    SpendsPrefixOf(requests[s][i].body.operations, Get(Get(frame[s].coins)))

\* an attempt that starts where an earlier one ended keeps nothing of it
C18_RetryStartsFromAccountCoins ==
    \A s \in Activations :
        (pc[s] \in Ended /\ pc'[s] \notin Ended) =>
            /\ pc'[s] = "awaitAccountCoins"
            /\ frame'[s] = EmptyFrame
            /\ Len(requests'[s]) = 1
            /\ requests'[s][1].call = "accountCoins"

C18_CoinsFreshPerAttempt ==
    /\ []C18_FetchedOnceAndUsed
    /\ [][C18_RetryStartsFromAccountCoins]_vars

\* both lists of an attempt were built and both spend the two coins fetched
C18_BothBuildsFromTheFetch ==
    \E s \in Activations :
        /\ frame[s].ops # None
        /\ Len(FetchedCoins(s)) = 2
        /\ Len(Get(frame[s].ops)) = 4
        /\ Len(Get(frame[s].preprocessOps)) = 4
        /\ Called(s, "payloads")

(***************************************************************************)
(* C19: the recorded transactions only grow, by appending, and only on     *)
(* success: a step on which an attempt succeeds appends exactly one        *)
(* {hash, amount} record, the one it reports, and clears recipient and     *)
(* amount; a step on which an attempt fails leaves the recorded list, the  *)
(* recipient and the amount as they were; any other step leaves the list   *)
(* alone.  Hence the number of records is the number of successes.         *)
(***************************************************************************)
Succeeding == {s \in Activations : pc[s] # "done" /\ pc'[s] = "done"}

Failing ==
    {s \in Activations :
        /\ pc'[s] = "failed"
        /\ \/ pc[s] \in Awaiting
           \/ <<pc[s], frame[s], requests[s], rejected[s]>>
                 # <<pc'[s], frame'[s], requests'[s], rejected'[s]>>}

C19_RecordsFollowSuccesses ==
    /\ IsPrefix(txs, txs')
    /\ Len(txs') = Len(txs) + Cardinality(Succeeding)
    /\ \A s \in Succeeding :
          /\ reported'[s] # None
          /\ txs' = Append(txs, Get(reported'[s]))
          /\ DOMAIN Get(reported'[s]) = {"hash", "amount"}
          /\ state'.recipient = ""
          /\ state'.amount = NULL
    /\ \A s \in Failing :
          /\ txs' = txs
          /\ state'.recipient = state.recipient
          /\ state'.amount = state.amount

BuiltFromSnapshot(ops, fee, snapshot) ==
    LET n == Len(ops) - 2
        A == MinorUnits(snapshot.state.amount)
    IN  /\ n >= 1
        /\ \A j \in 1..n : ops[j].account.address = snapshot.userAddress
        /\ ops[n + 1].account.address = snapshot.state.recipient
        /\ ops[n + 1].amount.value = ToString(A)
        /\ ops[n + 2].account.address = snapshot.userAddress
        /\ ops[n + 2].amount.value = ToString(InputsTotal(ops) - A - fee)

C20_SnapshotAtStart ==
    \A s \in Activations :
        /\ frame[s].preprocessOps # None =>
              BuiltFromSnapshot(Get(frame[s].preprocessOps), 0, closure[s])
        /\ frame[s].ops # None =>
              BuiltFromSnapshot(Get(frame[s].ops), SuggestedFee(s), closure[s])
        /\ \A i \in 1..Len(requests[s]) :
              /\ requests[s][i].call = "accountCoins" =>
                    requests[s][i].body.address = closure[s].userAddress
              /\ requests[s][i].call = "payloads" =>
                    requests[s][i].body.operations = Get(frame[s].ops)
        /\ reported[s] # None =>
              LET signed == Get(frame[s].ops)
              IN  /\ Get(reported[s]).amount = closure[s].state.amount
                  /\ ToString(MinorUnits(Get(reported[s]).amount))
                        = signed[Len(signed) - 1].amount.value

\* the form holds another amount and another recipient than the attempt in
\* flight was started with, and the intent has gone to Payloads
C20_EditedInFlight ==
    \E s \in Activations :
        /\ pc[s] = "awaitPayloads"
        /\ state.amount # NULL
        /\ state.amount # closure[s].state.amount
        /\ state.recipient # closure[s].state.recipient
        /\ frame[s].ops # None
====
